---- MODULE Spec2Model ----
(***************************************************************************)
(* Model of crates/primitives-traits/src/block/mod.rs: the Block trait,    *)
(* its implementation for alloy_consensus::Block<T>, and the TestBlock     *)
(* extension trait with its implementation.                                *)
(*                                                                         *)
(* A block is a record [header, body].  A header is a record of the four   *)
(* fields the TestBlock setters reach (parent_hash, number, state_root,    *)
(* difficulty) plus one field no setter reaches (timestamp), which stands  *)
(* for the rest of the header.  A body is a record of an ordered           *)
(* transaction sequence and an ordered ommer sequence (ommers are headers).*)
(* An owned value that may have been moved out is an Option, modelled as   *)
(* the empty sequence (None) or a one-element sequence (Some).             *)
(***************************************************************************)
EXTENDS Integers, Sequences, FiniteSets, TLC

\* ---------------------------------------------------------------- bounds
MaxNumber == 1
MaxLen == 2
MaxOmmers == 1

\* ---------------------------------------------------------------- values
\* B256 values (parent hash, state root): two sample values, 0 the zero hash.
Hashes == {0, 1}

\* BlockNumber values; 42 is the number used by the test-mutation scenario.
BlockNumbers == (0..MaxNumber) \cup {42}

\* U256 difficulty values.
Difficulties == {0, 1}

Timestamps == {0, 1}

\* Signed transactions, abstracted to identifiers.
Txs == {1, 2}

Headers ==
  [parent_hash : Hashes, number : BlockNumbers, state_root : Hashes,
   difficulty : Difficulties, timestamp : Timestamps]

RECURSIVE SeqsUpTo(_, _)
SeqsUpTo(S, n) ==
  IF n = 0 THEN {<<>>}
  ELSE LET shorter == SeqsUpTo(S, n - 1)
       IN shorter \cup {Append(s, x) : s \in {t \in shorter : Len(t) = n - 1}, x \in S}

\* Default for Header: every field at its zero value.
HeaderDefault ==
  [parent_hash |-> 0, number |-> 0, state_root |-> 0, difficulty |-> 0,
   timestamp |-> 0]

\* A header that differs from the default one in every field.
HeaderOther ==
  [parent_hash |-> 1, number |-> 42, state_root |-> 1, difficulty |-> 1,
   timestamp |-> 1]

\* The headers that occur as ommers in the explored bodies.
OmmerHeaders == {HeaderDefault, HeaderOther}

Bodies ==
  [transactions : SeqsUpTo(Txs, MaxLen), ommers : SeqsUpTo(OmmerHeaders, MaxOmmers)]

\* Default for BlockBody: no transactions, no ommers.
BodyDefault == [transactions |-> <<>>, ommers |-> <<>>]

Blocks == [header : Headers, body : Bodies]

\* Arguments tried for the operations that take a whole header or body.
HeaderSamples ==
  {HeaderDefault, HeaderOther, [HeaderDefault EXCEPT !.number = 1]}

BodySamples ==
  {BodyDefault,
   [transactions |-> <<1, 2>>, ommers |-> <<HeaderOther>>],
   [transactions |-> <<2, 1>>, ommers |-> <<>>]}

\* The default header and the headers that differ from it in one field.
EqHeaders ==
  {HeaderDefault,
   [HeaderDefault EXCEPT !.parent_hash = 1],
   [HeaderDefault EXCEPT !.number = 42],
   [HeaderDefault EXCEPT !.state_root = 1],
   [HeaderDefault EXCEPT !.difficulty = 1],
   [HeaderDefault EXCEPT !.timestamp = 1]}

\* ---------------------------------------------------- impl Block (l.68-90)
\* A value returned where the signature promises Self; no code path of the
\* implementation produces it.
Failure == [error |-> "failed"]

\* Faulty variants of the operations, used to show that the properties
\* below depend on the code: new that forgets the body,
new_drops_body(h, b) == [header |-> h, body |-> BodyDefault]

\* new that rejects ommers on block 0,
new_validates(h, b) ==
  IF Len(b.ommers) > 0 /\ h.number = 0 THEN Failure ELSE [header |-> h, body |-> b]

new(h, b) == [header |-> h, body |-> b]

\* header() that returns a fresh default header,
header_default(self) == HeaderDefault

header(self) == self.header

body(self) == self.body

\* split that leaves the header among the ommers,
split_pushes_ommer(self) ==
  <<self.header, [self.body EXCEPT !.ommers = <<self.header>>]>>

\* split that returns an empty body.
split_default_body(self) == <<self.header, BodyDefault>>

split(self) == <<self.header, self.body>>

\* Default for alloy_consensus::Block: field-wise default.
default == [header |-> HeaderDefault, body |-> BodyDefault]

\* PartialEq for alloy_consensus::Block: field-wise comparison; the body's
\* sequences compare by length and then element by element, in order.
SeqEq(s, t) == Len(s) = Len(t) /\ \A i \in 1..Len(s) : s[i] = t[i]

BodyEq(a, b) == SeqEq(a.transactions, b.transactions) /\ SeqEq(a.ommers, b.ommers)

HeaderEq(a, b) ==
  /\ a.parent_hash = b.parent_hash
  /\ a.number = b.number
  /\ a.state_root = b.state_root
  /\ a.difficulty = b.difficulty
  /\ a.timestamp = b.timestamp

eq(a, b) == HeaderEq(a.header, b.header) /\ BodyEq(a.body, b.body)

\* ------------------------------------ TestHeader (header/test_utils.rs)
TestHeader_set_parent_hash(h, hash) == [h EXCEPT !.parent_hash = hash]

TestHeader_set_block_number(h, number) == [h EXCEPT !.number = number]

TestHeader_set_state_root(h, state_root) == [h EXCEPT !.state_root = state_root]

TestHeader_set_difficulty(h, difficulty) == [h EXCEPT !.difficulty = difficulty]

\* ------------------------------------------ impl TestBlock (l.127-143)
\* A mutable borrow is the place it borrows: the name of the field.
body_mut(self) == "body"

header_mut(self) == "header"

\* Assignment through a mutable borrow.
Write(self, place, value) == [self EXCEPT ![place] = value]

\* Faulty variant: set_header that keeps the old block number.
set_header_keeps_number(self, h) ==
  [self EXCEPT !.header = [h EXCEPT !.number = self.header.number]]

set_header(self, h) == [self EXCEPT !.header = h]

\* --------------------------------------- trait TestBlock (l.96-125)
set_parent_hash(self, hash) ==
  Write(self, header_mut(self), TestHeader_set_parent_hash(self[header_mut(self)], hash))

\* Faulty variant: delegates to the wrong TestHeader setter.
set_block_number_as_difficulty(self, number) ==
  Write(self, header_mut(self), TestHeader_set_difficulty(self[header_mut(self)], number))

set_block_number(self, number) ==
  Write(self, header_mut(self), TestHeader_set_block_number(self[header_mut(self)], number))

\* Faulty variant: delegates to the wrong TestHeader setter.
set_state_root_as_parent_hash(self, state_root) ==
  Write(self, header_mut(self), TestHeader_set_parent_hash(self[header_mut(self)], state_root))

set_state_root(self, state_root) ==
  Write(self, header_mut(self), TestHeader_set_state_root(self[header_mut(self)], state_root))

set_difficulty(self, difficulty) ==
  Write(self, header_mut(self), TestHeader_set_difficulty(self[header_mut(self)], difficulty))

\* ------------------------------------------------------------------ state
\* The model follows one block value from its construction to its split,
\* and a second block value where two blocks are compared.
VARIABLES
  blk,      \* the block under test: <<>> before construction and after split
  other,    \* the block it is compared with: <<>> before construction
  op,       \* the operation that ran last
  arg,      \* its arguments
  res,      \* its return value
  pre,      \* the receiver (self) as it was before the operation
  built,    \* <<h, b>>: the arguments of the new() that built blk, kept until
            \* a test mutation whose effect is not remembered in lastSet
  fresh,    \* how blk came to its present value
  wasRead,  \* header() or body() has been called on blk
  lastSet   \* per field, the argument of the latest call of its setter

vars == <<blk, other, op, arg, res, pre, built, fresh, wasRead, lastSet>>

SetterFields == {"parent_hash", "number", "state_root", "difficulty"}

NeverSet == [f \in SetterFields |-> <<>>]

Init ==
  /\ blk = <<>>
  /\ other = <<>>
  /\ op = "init"
  /\ arg = <<>>
  /\ res = <<>>
  /\ pre = <<>>
  /\ built = <<>>
  /\ fresh = "none"
  /\ wasRead = FALSE
  /\ lastSet = NeverSet

\* -------------------------------------------------- production operations
New(h, b) ==
  /\ blk = <<>>
  /\ fresh = "none"
  /\ blk' = <<new(h, b)>>
  /\ op' = "new"
  /\ arg' = <<h, b>>
  /\ res' = <<>>
  /\ pre' = <<>>
  /\ built' = <<h, b>>
  /\ fresh' = "new"
  /\ UNCHANGED <<other, wasRead, lastSet>>

Default ==
  /\ blk = <<>>
  /\ fresh = "none"
  /\ blk' = <<default>>
  /\ op' = "default"
  /\ arg' = <<>>
  /\ res' = <<>>
  /\ pre' = <<>>
  /\ built' = <<>>
  /\ fresh' = "default"
  /\ UNCHANGED <<other, wasRead, lastSet>>

HeaderCall ==
  /\ blk # <<>>
  /\ res' = <<header(blk[1])>>
  /\ op' = "header"
  /\ arg' = <<>>
  /\ pre' = blk
  /\ wasRead' = TRUE
  /\ UNCHANGED <<blk, other, built, fresh, lastSet>>

BodyCall ==
  /\ blk # <<>>
  /\ res' = <<body(blk[1])>>
  /\ op' = "body"
  /\ arg' = <<>>
  /\ pre' = blk
  /\ wasRead' = TRUE
  /\ UNCHANGED <<blk, other, built, fresh, lastSet>>

\* split takes self by value: the block is moved out.
Split ==
  /\ blk # <<>>
  /\ res' = split(blk[1])
  /\ blk' = <<>>
  /\ op' = "split"
  /\ arg' = <<>>
  /\ pre' = blk
  /\ UNCHANGED <<other, built, fresh, wasRead, lastSet>>

Next ==
  \/ \E h \in Headers, b \in Bodies : New(h, b)
  \/ Default
  \/ HeaderCall
  \/ BodyCall
  \/ Split

Spec == Init /\ [][Next]_vars

\* ------------------------------------------------------ test operations
Mutate(name, a, result) ==
  /\ blk' = <<result>>
  /\ op' = name
  /\ arg' = <<a>>
  /\ res' = <<>>
  /\ pre' = blk
  /\ built' = <<>>
  /\ fresh' = "mutated"
  /\ UNCHANGED <<other, wasRead, lastSet>>

SetHeader(h) == blk # <<>> /\ Mutate("set_header", h, set_header(blk[1], h))

SetParentHash(v) == blk # <<>> /\ Mutate("set_parent_hash", v, set_parent_hash(blk[1], v))

SetBlockNumber(v) == blk # <<>> /\ Mutate("set_block_number", v, set_block_number(blk[1], v))

SetStateRoot(v) == blk # <<>> /\ Mutate("set_state_root", v, set_state_root(blk[1], v))

SetDifficulty(v) == blk # <<>> /\ Mutate("set_difficulty", v, set_difficulty(blk[1], v))

\* *block.body_mut() = b
BodyMutWrite(b) ==
  blk # <<>> /\ Mutate("body_mut", b, Write(blk[1], body_mut(blk[1]), b))

\* *block.header_mut() = h
HeaderMutWrite(h) ==
  blk # <<>> /\ Mutate("header_mut", h, Write(blk[1], header_mut(blk[1]), h))

NextTest ==
  \/ \E h \in Headers, b \in BodySamples : New(h, b)
  \/ Default
  \/ HeaderCall
  \/ BodyCall
  \/ Split
  \/ \E h \in HeaderSamples : SetHeader(h)
  \/ \E v \in Hashes : SetParentHash(v)
  \/ \E v \in BlockNumbers : SetBlockNumber(v)
  \/ \E v \in Hashes : SetStateRoot(v)
  \/ \E v \in Difficulties : SetDifficulty(v)
  \/ \E b \in BodySamples : BodyMutWrite(b)
  \/ \E h \in HeaderSamples : HeaderMutWrite(h)

SpecTest == Init /\ [][NextTest]_vars

\* ------------------------------------- runs of the four field setters
\* The same four calls, with the latest argument of each remembered.
Tracked(field, v, result) ==
  /\ blk' = <<result>>
  /\ lastSet' = [lastSet EXCEPT ![field] = <<v>>]
  /\ fresh' = "mutated"
  /\ UNCHANGED <<other, op, arg, res, pre, built, wasRead>>

TrackedSetParentHash(v) ==
  blk # <<>> /\ Tracked("parent_hash", v, set_parent_hash(blk[1], v))

TrackedSetBlockNumber(v) ==
  blk # <<>> /\ Tracked("number", v, set_block_number(blk[1], v))

TrackedSetStateRoot(v) ==
  blk # <<>> /\ Tracked("state_root", v, set_state_root(blk[1], v))

TrackedSetDifficulty(v) ==
  blk # <<>> /\ Tracked("difficulty", v, set_difficulty(blk[1], v))

NextSetters ==
  \/ \E h \in Headers, b \in BodySamples : New(h, b)
  \/ \E v \in Hashes : TrackedSetParentHash(v)
  \/ \E v \in BlockNumbers : TrackedSetBlockNumber(v)
  \/ \E v \in Hashes : TrackedSetStateRoot(v)
  \/ \E v \in Difficulties : TrackedSetDifficulty(v)

SpecSetters == Init /\ [][NextSetters]_vars

\* ------------------------------------------------- comparing two blocks
NewOther(h, b) ==
  /\ blk # <<>>
  /\ other = <<>>
  /\ other' = <<new(h, b)>>
  /\ op' = "new"
  /\ arg' = <<h, b>>
  /\ UNCHANGED <<blk, res, pre, built, fresh, wasRead, lastSet>>

\* blk == other
EqCall ==
  /\ blk # <<>>
  /\ other # <<>>
  /\ res' = <<eq(blk[1], other[1])>>
  /\ op' = "eq"
  /\ pre' = blk
  /\ UNCHANGED <<blk, other, arg, built, fresh, wasRead, lastSet>>

NextEq ==
  \/ \E h \in EqHeaders, b \in Bodies : New(h, b)
  \/ \E h \in EqHeaders, b \in BodySamples : NewOther(h, b)
  \/ EqCall

SpecEq == Init /\ [][NextEq]_vars

\* ================================================================ claims

\* C1: new(h, b) followed at once by split() returns exactly (h, b): the
\* header component is h and the body component is b, its transaction
\* sequence and its ommer sequence in the order given.
C1_NewSplitRoundTrip ==
  (op = "split" /\ fresh = "new" /\ ~wasRead) =>
    /\ res = built
    /\ res[1] = built[1]
    /\ res[2].transactions = built[2].transactions
    /\ res[2].ommers = built[2].ommers

C1_Witness ==
  /\ op = "split"
  /\ fresh = "new"
  /\ ~wasRead
  /\ res[1] = HeaderOther
  /\ res[2].transactions = <<2, 1>>
  /\ res[2].ommers = <<HeaderOther>>

\* Element-wise, in-order equality of two sequences, spelled out.
SameInOrder(s, t) ==
  /\ DOMAIN s = DOMAIN t
  /\ \A i \in DOMAIN s : s[i] = t[i]

\* C2: new(h1, b1) == new(h2, b2) exactly when h1 = h2 and the bodies have
\* the same transactions in the same order and the same ommers in the same
\* order; the same transactions in another order give unequal blocks.
C2_StructuralEquality ==
  op = "eq" =>
    /\ res[1] <=> /\ built[1] = arg[1]
                  /\ SameInOrder(built[2].transactions, arg[2].transactions)
                  /\ SameInOrder(built[2].ommers, arg[2].ommers)
    /\ res[1] <=> (header(blk[1]) = header(other[1]) /\ body(blk[1]) = body(other[1]))
    /\ (built[2].transactions = <<1, 2>> /\ arg[2].transactions = <<2, 1>>) => ~res[1]

C2_Witness ==
  /\ op = "eq"
  /\ built[1] = arg[1]
  /\ built[2].ommers = arg[2].ommers
  /\ built[2].transactions = <<1, 2>>
  /\ arg[2].transactions = <<2, 1>>
  /\ res = <<FALSE>>

\* C4: after set_block_number(n), header() reports number n and body() is
\* what it was before the call.
C4_SetBlockNumber ==
  op = "set_block_number" =>
    /\ header(blk[1]).number = arg[1]
    /\ body(blk[1]) = body(pre[1])

C4_Witness ==
  /\ op = "set_block_number"
  /\ pre = <<default>>
  /\ arg = <<42>>
  /\ header(blk[1]).number = 42
  /\ body(blk[1]) = BodyDefault

\* C5: new, header, body and split always return a value of their declared
\* type, never an error: new a block, header() a header, body() a body,
\* split() a (header, body) pair; and each can be called wherever ownership
\* allows it.
C5_Total ==
  /\ op = "new" => (Len(blk) = 1 /\ blk[1] \in Blocks)
  /\ op = "header" => (Len(res) = 1 /\ res[1] \in Headers)
  /\ op = "body" => (Len(res) = 1 /\ res[1] \in Bodies)
  /\ op = "split" => (Len(res) = 2 /\ res[1] \in Headers /\ res[2] \in Bodies)
  /\ op = "init" => \A h \in Headers, b \in Bodies : ENABLED New(h, b)
  /\ blk # <<>> => (ENABLED HeaderCall /\ ENABLED BodyCall /\ ENABLED Split)

C5_Witness ==
  /\ op = "split"
  /\ fresh = "new"
  /\ wasRead
  /\ built[2].ommers # <<>>
  /\ built[1].number = 0

\* C6: the default block splits into the default header and the default
\* body, whose transaction and ommer sequences are empty.
C6_DefaultSplit ==
  (op = "split" /\ fresh = "default") =>
    /\ res = <<HeaderDefault, BodyDefault>>
    /\ res[2].transactions = <<>>
    /\ res[2].ommers = <<>>

C6_Witness ==
  /\ op = "split"
  /\ fresh = "default"
  /\ pre = <<default>>

\* C8: on a block built by new(h, b), header() returns h and body() returns
\* b; header() and body() leave the block as it was; after any number of
\* them the block still holds h and b and split() still returns (h, b).
C8_ReadOnly ==
  /\ op = "header" => (blk = pre /\ (fresh = "new" => res = <<built[1]>>))
  /\ op = "body" => (blk = pre /\ (fresh = "new" => res = <<built[2]>>))
  /\ (fresh = "new" /\ blk # <<>>) =>
       (blk[1].header = built[1] /\ blk[1].body = built[2])
  /\ (op = "split" /\ fresh = "new" /\ wasRead) => res = built

C8_Witness ==
  /\ op = "split"
  /\ fresh = "new"
  /\ wasRead
  /\ res = <<HeaderOther, [transactions |-> <<1, 2>>, ommers |-> <<HeaderDefault>>]>>

\* C9: set_header(h2) on a block holding (h, b) leaves the block equal to
\* new(h2, b): header() is h2, body() is b, split() is (h2, b).
C9_SetHeader ==
  op = "set_header" =>
    /\ blk[1] = new(arg[1], body(pre[1]))
    /\ header(blk[1]) = arg[1]
    /\ body(blk[1]) = body(pre[1])
    /\ split(blk[1]) = <<arg[1], body(pre[1])>>

C9_Witness ==
  /\ op = "set_header"
  /\ arg = <<HeaderDefault>>
  /\ header(pre[1]) = HeaderOther
  /\ body(pre[1]).transactions = <<1, 2>>
  /\ header(blk[1]) = HeaderDefault

\* C10: after any run of the four field setters on a block, each of the four
\* fields holds the latest argument of its own setter, or its original value
\* if that setter was never called; the remaining header field and the body
\* are the original ones; and setters of two different fields commute.
Expected(f) == IF lastSet[f] = <<>> THEN built[1][f] ELSE lastSet[f][1]

Commute ==
  LET b == blk[1] IN
  /\ \A v \in Hashes, w \in BlockNumbers :
       set_block_number(set_parent_hash(b, v), w) = set_parent_hash(set_block_number(b, w), v)
  /\ \A v \in Hashes, w \in Hashes :
       set_state_root(set_parent_hash(b, v), w) = set_parent_hash(set_state_root(b, w), v)
  /\ \A v \in Hashes, w \in Difficulties :
       set_difficulty(set_parent_hash(b, v), w) = set_parent_hash(set_difficulty(b, w), v)
  /\ \A v \in BlockNumbers, w \in Hashes :
       set_state_root(set_block_number(b, v), w) = set_block_number(set_state_root(b, w), v)
  /\ \A v \in BlockNumbers, w \in Difficulties :
       set_difficulty(set_block_number(b, v), w) = set_block_number(set_difficulty(b, w), v)
  /\ \A v \in Hashes, w \in Difficulties :
       set_difficulty(set_state_root(b, v), w) = set_state_root(set_difficulty(b, w), v)

C10_SettersIndependent ==
  blk # <<>> =>
    /\ \A f \in SetterFields : header(blk[1])[f] = Expected(f)
    /\ header(blk[1]).timestamp = built[1].timestamp
    /\ body(blk[1]) = built[2]
    /\ Commute

C10_Witness ==
  /\ blk # <<>>
  /\ built[1] = HeaderDefault
  /\ built[2].transactions = <<1, 2>>
  /\ lastSet = [parent_hash |-> <<1>>, number |-> <<42>>, state_root |-> <<>>,
                difficulty |-> <<1>>]
  /\ header(blk[1]) = [HeaderOther EXCEPT !.state_root = 0, !.timestamp = 0]

====
